---- MODULE Spec2Model ----
(***************************************************************************)
(* A model of medrisk_features: the feature engineering pipeline           *)
(* (FeatureEngineeringPipeline.transform), its two pre-processing          *)
(* functions, the schema validator and the six feature stages.             *)
(*                                                                         *)
(* A DataFrame is an ordered list of column names and a list of rows, each *)
(* row a function from the column names to cell values.  DataFrames live   *)
(* in a two-cell heap (CallerRef: the object the caller passed, WorkRef:   *)
(* the object the callee works on), so that "df = df.copy()" followed by   *)
(* column assignment is distinguishable from column assignment on the      *)
(* caller's object.                                                        *)
(*                                                                         *)
(* Cell values are exact rationals, NaN, +/-infinity or strings.  pandas   *)
(* computes in float64; the model computes the same quantities exactly.    *)
(* DataFrames have at least one row.                                       *)
(***************************************************************************)
EXTENDS Integers, Sequences, FiniteSets, TLC

\* ------------------------------------------------------------------------
\* Bounds of the model
\* ------------------------------------------------------------------------
MaxRows == 2

\* ------------------------------------------------------------------------
\* Cell values
\* ------------------------------------------------------------------------
Rat(a, b) == [k |-> "num", n |-> a, d |-> b, s |-> ""]
Num(a) == Rat(a, 1)
NaN == [k |-> "nan", n |-> 0, d |-> 1, s |-> ""]
PosInf == [k |-> "inf", n |-> 1, d |-> 1, s |-> ""]
NegInf == [k |-> "inf", n |-> -1, d |-> 1, s |-> ""]
Str(t) == [k |-> "str", n |-> 0, d |-> 1, s |-> t]

IsNum(v) == v.k = "num"
IsNaN(v) == v.k = "nan"
IsInf(v) == v.k = "inf"
IsFinite(v) == v.k = "num"

Abs(i) == IF i < 0 THEN -i ELSE i

RECURSIVE Gcd(_, _)
Gcd(a, b) == IF b = 0 THEN a ELSE Gcd(b, a % b)

\* a rational in lowest terms with a positive denominator
Norm(a, b) ==
    LET g == Gcd(Abs(a), Abs(b))
        sg == IF b < 0 THEN -1 ELSE 1
    IN Rat(sg * (a \div g), sg * (b \div g))

Sign(v) == IF v.n > 0 THEN 1 ELSE IF v.n < 0 THEN -1 ELSE 0

\* x < y on floats: any comparison with NaN is False
FLt(x, y) ==
    IF IsNaN(x) \/ IsNaN(y) \/ x.k = "str" \/ y.k = "str" THEN FALSE
    ELSE IF IsInf(x) /\ IsInf(y) THEN x.n < y.n
    ELSE IF IsInf(x) THEN x.n < 0
    ELSE IF IsInf(y) THEN y.n > 0
    ELSE x.n * y.d < y.n * x.d
FGt(x, y) == FLt(y, x)
FEq(x, y) ==
    IF IsNaN(x) \/ IsNaN(y) \/ x.k = "str" \/ y.k = "str" THEN FALSE
    ELSE IF IsInf(x) \/ IsInf(y) THEN x = y
    ELSE x.n * y.d = y.n * x.d
FLe(x, y) == FLt(x, y) \/ FEq(x, y)
FGe(x, y) == FLe(y, x)

\* Series arithmetic, element by element
FMul(x, y) ==
    IF IsNaN(x) \/ IsNaN(y) THEN NaN
    ELSE IF IsInf(x) \/ IsInf(y)
         THEN IF Sign(x) * Sign(y) = 0 THEN NaN
              ELSE IF Sign(x) * Sign(y) > 0 THEN PosInf ELSE NegInf
    ELSE Norm(x.n * y.n, x.d * y.d)

FAdd(x, y) ==
    IF IsNaN(x) \/ IsNaN(y) THEN NaN
    ELSE IF IsInf(x) /\ IsInf(y) THEN (IF x = y THEN x ELSE NaN)
    ELSE IF IsInf(x) THEN x
    ELSE IF IsInf(y) THEN y
    ELSE Norm(x.n * y.d + y.n * x.d, x.d * y.d)

FNeg(x) ==
    IF IsNaN(x) THEN NaN
    ELSE IF IsInf(x) THEN (IF x.n > 0 THEN NegInf ELSE PosInf)
    ELSE Rat(-x.n, x.d)

FSub(x, y) == FAdd(x, FNeg(y))

\* true division of a numeric Series: x/0 is +/-inf, 0/0 is NaN, never an
\* exception
FDiv(x, y) ==
    IF IsNaN(x) \/ IsNaN(y) THEN NaN
    ELSE IF IsInf(y) THEN (IF IsInf(x) THEN NaN ELSE Num(0))
    ELSE IF y.n = 0
         THEN IF Sign(x) = 0 THEN NaN
              ELSE IF Sign(x) > 0 THEN PosInf ELSE NegInf
    ELSE IF IsInf(x)
         THEN IF Sign(x) * Sign(y) > 0 THEN PosInf ELSE NegInf
    ELSE Norm(x.n * y.d, x.d * y.n)

\* Series.clip(upper=u): NaN stays NaN
ClipUpper(x, u) == IF FGt(x, u) THEN u ELSE x

\* Series.replace(0, np.nan)
ReplaceZeroNaN(x) == IF FEq(x, Num(0)) THEN NaN ELSE x

\* bool Series .astype(int)
AsInt(b) == IF b THEN Num(1) ELSE Num(0)

\* pd.cut(x, bins, labels, right): the label of the bin holding x, NaN when
\* x is NaN or in no bin.  right=TRUE: bins (b[i], b[i+1]];
\* right=FALSE: bins [b[i], b[i+1])
\* a pd.cut that takes every bin as left-closed, whatever "right" is
CutLeftClosed(x, bins, labels, right) ==
    LET hit == { i \in 1..Len(labels) :
                   FLe(bins[i], x) /\ FLt(x, bins[i + 1]) }
    IN IF hit = {} THEN NaN ELSE Str(labels[CHOOSE i \in hit : TRUE])

Cut(x, bins, labels, right) ==
    LET hit == { i \in 1..Len(labels) :
                   IF right
                   THEN FLt(bins[i], x) /\ FLe(x, bins[i + 1])
                   ELSE FLe(bins[i], x) /\ FLt(x, bins[i + 1]) }
    IN IF hit = {} THEN NaN ELSE Str(labels[CHOOSE i \in hit : TRUE])

\* ------------------------------------------------------------------------
\* DataFrames
\* ------------------------------------------------------------------------
Range(q) == { q[i] : i \in 1..Len(q) }

Columns(df) == Range(df.cols)

NRows(df) == Len(df.rows)

\* S.issubset(df.columns) / "c" in df.columns
HasColumns(df, S) == S \subseteq Columns(df)

\* df[c]: the column as a Series
Col(df, c) == [i \in 1..Len(df.rows) |-> df.rows[i][c]]

\* a column assignment that loses the rows whose new value is missing
SetColumnDropNa(df, c, series) ==
    LET cs == Columns(df) \cup {c}
        rs == [i \in 1..Len(df.rows) |->
                 [x \in cs |-> IF x = c THEN series[i] ELSE df.rows[i][x]]]
    IN [cols |-> IF c \in Columns(df) THEN df.cols ELSE Append(df.cols, c),
        rows |-> SelectSeq(rs, LAMBDA r : ~IsNaN(r[c]))]

\* df[c] = series: an existing column keeps its position and gets the new
\* values, a new column is appended; the values are aligned row by row
SetColumn(df, c, series) ==
    LET cs == Columns(df) \cup {c}
    IN [cols |-> IF c \in Columns(df) THEN df.cols ELSE Append(df.cols, c),
        rows |-> [i \in 1..Len(df.rows) |->
                    [x \in cs |-> IF x = c THEN series[i] ELSE df.rows[i][x]]]]

\* df.drop(columns=S)
DropColumns(df, S) ==
    [cols |-> SelectSeq(df.cols, LAMBDA c : c \notin S),
     rows |-> [i \in 1..Len(df.rows) |->
                 [x \in Columns(df) \ S |-> df.rows[i][x]]]]

\* Series.replace({old: new, ...}), m a function old -> new
ReplaceLabels(series, m) ==
    [i \in DOMAIN series |->
        IF series[i].k = "str" /\ series[i].s \in DOMAIN m
        THEN Str(m[series[i].s]) ELSE series[i]]

\* element-wise Series operations
SMul(x, y) == [i \in DOMAIN x |-> FMul(x[i], y[i])]
SDiv(x, y) == [i \in DOMAIN x |-> FDiv(x[i], y[i])]
SSub(x, y) == [i \in DOMAIN x |-> FSub(x[i], y[i])]
SAdd(x, y) == [i \in DOMAIN x |-> FAdd(x[i], y[i])]
SDivBy(x, v) == [i \in DOMAIN x |-> FDiv(x[i], v)]
SPlus(x, v) == [i \in DOMAIN x |-> FAdd(x[i], v)]
SClipUpper(x, u) == [i \in DOMAIN x |-> ClipUpper(x[i], u)]
SReplaceZeroNaN(x) == [i \in DOMAIN x |-> ReplaceZeroNaN(x[i])]
SCut(x, bins, labels, right) == [i \in DOMAIN x |-> Cut(x[i], bins, labels, right)]
SGe(x, v) == [i \in DOMAIN x |-> FGe(x[i], v)]
SGt(x, v) == [i \in DOMAIN x |-> FGt(x[i], v)]
SLt(x, v) == [i \in DOMAIN x |-> FLt(x[i], v)]
SIsIn(x, S) == [i \in DOMAIN x |-> x[i].k = "str" /\ x[i].s \in S]
SAnd(x, y) == [i \in DOMAIN x |-> x[i] /\ y[i]]
SOr(x, y) == [i \in DOMAIN x |-> x[i] \/ y[i]]
SAsInt(x) == [i \in DOMAIN x |-> AsInt(x[i])]

\* ------------------------------------------------------------------------
\* The heap: the caller's DataFrame object and the callee's working object
\* ------------------------------------------------------------------------
CallerRef == 0
WorkRef == 1
NoDf == [cols |-> <<>>, rows |-> <<>>]

\* a copy that shares the object: what "df = df" instead of "df = df.copy()"
\* would do
AliasCopy(h, r) == [heap |-> h, ref |-> r]

\* df.copy(): a new object with the same columns and values.  The object
\* copied from is not referenced again by the callee, so the new object
\* takes the working cell.
DataFrameCopy(h, r) == [heap |-> [h EXCEPT ![WorkRef] = h[r]], ref |-> WorkRef]

\* ------------------------------------------------------------------------
\* Logger events and exceptions
\* ------------------------------------------------------------------------
Event(lv, m) == [level |-> lv, msg |-> m]
LogInfo(lg, m) == Append(lg, Event("INFO", m))
LogWarning(lg, m) == Append(lg, Event("WARNING", m))
LogError(lg, m) == Append(lg, Event("ERROR", m))

NoErr == [type |-> "none", msg |-> "", list |-> <<>>]
Raise(t, m, l) == [type |-> t, msg |-> m, list |-> l]

\* the state of one call: the heap, the DataFrame the code holds in "df",
\* the events logged so far and the exception raised, if any
Ctx(h, r, lg, e) == [heap |-> h, ref |-> r, log |-> lg, err |-> e]

Df(c) == c.heap[c.ref]
Failed(c) == c.err.type # "none"

\* df[col] = series: in-place update of the object "df" refers to
Assign(c, col, series) ==
    [c EXCEPT !.heap = [c.heap EXCEPT ![c.ref] = SetColumn(Df(c), col, series)]]

\* ------------------------------------------------------------------------
\* validation/schema.py
\* ------------------------------------------------------------------------
REQUIRED_COLUMNS == {"Age", "glucose_fasting", "bmi"}

\* Python's order on the strings that sorted() is applied to ("A" < "b" < "g")
StrRank(t) ==
    CASE t = "Age" -> 1
      [] t = "bmi" -> 2
      [] t = "glucose_fasting" -> 3
      [] OTHER -> 4

RECURSIVE Sorted(_)
Sorted(S) ==
    IF S = {} THEN <<>>
    ELSE LET m == CHOOSE x \in S : \A y \in S : StrRank(x) <= StrRank(y)
         IN <<m>> \o Sorted(S \ {m})

\* a validator that reports every required column, not only the absent ones
validate_reports_all(c) ==
    LET missing == REQUIRED_COLUMNS \ Columns(Df(c))
    IN IF missing # {}
       THEN [c EXCEPT !.log = LogError(c.log, "Missing required columns"),
                      !.err = Raise("SchemaValidationError",
                                    "Missing required columns",
                                    Sorted(REQUIRED_COLUMNS))]
       ELSE [c EXCEPT !.log = LogInfo(c.log, "All required columns are present.")]

validate_required_columns(c) ==
    LET missing == REQUIRED_COLUMNS \ Columns(Df(c))
    IN IF missing # {}
       THEN [c EXCEPT !.log = LogError(c.log, "Missing required columns"),
                      !.err = Raise("SchemaValidationError",
                                    "Missing required columns",
                                    Sorted(missing))]
       ELSE [c EXCEPT !.log = LogInfo(c.log, "All required columns are present.")]

validate(c) ==
    LET c1 == [c EXCEPT !.log = LogInfo(c.log, "Validating input data schema...")]
        c2 == validate_required_columns(c1)
    IN IF Failed(c2) THEN c2
       ELSE [c2 EXCEPT !.log =
                LogInfo(c2.log, "Schema validation completed successfully.")]

\* ------------------------------------------------------------------------
\* preprocessing/leakage.py
\* ------------------------------------------------------------------------
\* a denylist that has grown a raw feature
LeakageColumnsWider == {"diabetes_stage", "diabetes_risk_score", "hba1c"}

LEAKAGE_COLUMNS == {"diabetes_stage", "diabetes_risk_score"}

\* a filter that removes diabetes_stage only
drop_leakage_stage_only(c) ==
    LET cp == DataFrameCopy(c.heap, c.ref)
        c1 == [c EXCEPT !.heap = cp.heap, !.ref = cp.ref]
        present_columns == {"diabetes_stage"} \cap Columns(Df(c1))
    IN IF present_columns # {}
       THEN [c1 EXCEPT !.log = LogWarning(c1.log, "Removing leakage columns"),
                       !.heap = [c1.heap EXCEPT ![c1.ref] =
                                    DropColumns(Df(c1), present_columns)]]
       ELSE [c1 EXCEPT !.log = LogInfo(c1.log, "No leakage columns detected.")]

drop_leakage_columns(c) ==
    LET cp == DataFrameCopy(c.heap, c.ref)
        c1 == [c EXCEPT !.heap = cp.heap, !.ref = cp.ref]
        present_columns == LEAKAGE_COLUMNS \cap Columns(Df(c1))
    IN IF present_columns # {}
       THEN [c1 EXCEPT !.log = LogWarning(c1.log, "Removing leakage columns"),
                       !.heap = [c1.heap EXCEPT ![c1.ref] =
                                    DropColumns(Df(c1), present_columns)]]
       ELSE [c1 EXCEPT !.log = LogInfo(c1.log, "No leakage columns detected.")]

\* ------------------------------------------------------------------------
\* preprocessing/categorical_cleaning.py
\* ------------------------------------------------------------------------
\* a gender mapping that also maps the canonical label back
GenderMapSwaps ==
    [x \in {"Other", "Unknown"} |-> IF x = "Other" THEN "Unknown" ELSE "Other"]

GenderMap == [x \in {"Other"} |-> "Unknown"]
EmploymentMap == [x \in {"Retired", "Unemployed"} |-> "Inactive"]
SmokingMap == [x \in {"Former"} |-> "Ex-Smoker"]

CleanColumn(c, col, m) ==
    IF col \in Columns(Df(c))
    THEN Assign(c, col, ReplaceLabels(Col(Df(c), col), m))
    ELSE c

clean_categorical_variables(c) ==
    LET cp == DataFrameCopy(c.heap, c.ref)
        c0 == [c EXCEPT !.heap = cp.heap, !.ref = cp.ref,
                        !.log = LogInfo(c.log, "Cleaning categorical variables...")]
        c1 == CleanColumn(c0, "gender", GenderMap)
        c2 == CleanColumn(c1, "employment_status", EmploymentMap)
        c3 == CleanColumn(c2, "smoking_status", SmokingMap)
    IN [c3 EXCEPT !.log = LogInfo(c3.log, "Categorical variables cleaned successfully.")]

\* the callee's first statement, "df = df.copy()", then its first log line
Enter(c, m) ==
    LET cp == DataFrameCopy(c.heap, c.ref)
    IN [c EXCEPT !.heap = cp.heap, !.ref = cp.ref, !.log = LogInfo(c.log, m)]

Warn(c, m) == [c EXCEPT !.log = LogWarning(c.log, m)]
Note(c, m) == [c EXCEPT !.log = LogInfo(c.log, m)]
Throw(c, t, m, l) == [c EXCEPT !.err = Raise(t, m, l)]

\* ------------------------------------------------------------------------
\* features/demographics.py
\* ------------------------------------------------------------------------
DetailedBins == <<Num(0), Num(30), Num(40), Num(50), Num(60), Num(70), Num(80), PosInf>>
\* the labels are written with "-" for the en dash of the source
DetailedLabels == <<"<30", "30-39", "40-49", "50-59", "60-69", "70-79", "80+">>
CoarseBins == <<Num(0), Num(30), Num(60), PosInf>>
CoarseLabels == <<"Young", "Adult", "Senior">>

_create_age_group_detailed(c) ==
    Assign(c, "age_group",
           SCut(Col(Df(c), "Age"), DetailedBins, DetailedLabels, FALSE))

_create_age_group_coarse(c) ==
    Assign(c, "age_group",
           SCut(Col(Df(c), "Age"), CoarseBins, CoarseLabels, FALSE))

\* an age grouping that falls back to the detailed bins on an unknown strategy
age_group_falls_back(c, strategy) ==
    IF strategy = "coarse"
    THEN _create_age_group_coarse(Note(c, "Using coarse age grouping."))
    ELSE _create_age_group_detailed(Note(c, "Using detailed age grouping."))

_create_age_group(c, strategy) ==
    IF strategy = "detailed"
    THEN _create_age_group_detailed(Note(c, "Using detailed age grouping."))
    ELSE IF strategy = "coarse"
    THEN _create_age_group_coarse(Note(c, "Using coarse age grouping."))
    ELSE Throw(c, "ValueError", "Invalid age_group_strategy",
               <<"detailed", "coarse">>)

\* a Demographics stage that degrades on a missing Age like the optional
\* features do: a warning, and the dataset returned as it came
DemographicsSkipsAge(c, strategy) ==
    LET c0 == Enter(c, "Creating demographic features...")
    IN IF "Age" \notin Columns(Df(c0))
       THEN Note(Warn(c0, "Column 'Age' missing - demographic features not created."),
                 "Demographic features created successfully.")
       ELSE
       LET c1 == _create_age_group(c0, strategy)
       IN IF Failed(c1) THEN c1
          ELSE Note(Assign(c1, "age_squared",
                           SMul(Col(Df(c1), "Age"), Col(Df(c1), "Age"))),
                    "Demographic features created successfully.")

DemographicsTransform(c, strategy) ==
    LET c0 == Enter(c, "Creating demographic features...")
    IN IF "Age" \notin Columns(Df(c0))
       THEN Throw(c0, "KeyError",
                  "Column 'Age' is required for demographic features.", <<"Age">>)
       ELSE
       LET c1 == _create_age_group(c0, strategy)
       IN IF Failed(c1) THEN c1
          ELSE
          LET c2 == Assign(c1, "age_squared",
                           SMul(Col(Df(c1), "Age"), Col(Df(c1), "Age")))
              c3 == IF HasColumns(Df(c2), {"income_level", "education_level"})
                    THEN Assign(c2, "socioeconomic_vulnerability_flag",
                           SAsInt(SAnd(
                             SIsIn(Col(Df(c2), "income_level"),
                                   {"Low", "Lower-Middle"}),
                             SIsIn(Col(Df(c2), "education_level"),
                                   {"No formal", "Highschool"}))))
                    ELSE Warn(c2, "socioeconomic_vulnerability_flag not created.")
          IN Note(c3, "Demographic features created successfully.")

\* ------------------------------------------------------------------------
\* features/medical.py
\* ------------------------------------------------------------------------
GlucoseBins == <<Num(0), Num(99), Num(125), PosInf>>
GlycemicLabels == <<"Normal", "Pre-Diabetes", "Diabetes">>
Hba1cBins == <<Num(0), Rat(57, 10), Rat(64, 10), PosInf>>
BmiBins == <<Num(0), Rat(185, 10), Rat(249, 10), Rat(299, 10), PosInf>>
BmiLabels == <<"Underweight", "Normal", "Overweight", "Obese">>

_compute_glucose_status(c) ==
    LET c1 == Assign(c, "glucose_status",
                     SCut(Col(Df(c), "glucose_fasting"), GlucoseBins,
                          GlycemicLabels, TRUE))
    IN IF "hba1c" \in Columns(Df(c1))
       THEN Assign(c1, "hba1c_category",
                   SCut(Col(Df(c1), "hba1c"), Hba1cBins, GlycemicLabels, TRUE))
       ELSE Warn(c1, "Column 'hba1c' missing - hba1c_category not created.")

\* a HOMA-IR step that raises on a missing insulin_level instead of skipping
homa_ir_raises(c) ==
    IF "insulin_level" \notin Columns(Df(c))
    THEN Throw(c, "KeyError", "insulin_level", <<"insulin_level">>)
    ELSE
    LET c1 == Assign(c, "HOMA_IR",
                     SDivBy(SMul(Col(Df(c), "glucose_fasting"),
                                 Col(Df(c), "insulin_level")), Num(405)))
    IN Assign(c1, "insulin_resistance_flag",
              SAsInt(SGt(Col(Df(c1), "HOMA_IR"), Rat(25, 10))))

_compute_homa_ir(c) ==
    IF "insulin_level" \notin Columns(Df(c))
    THEN Warn(c, "Column 'insulin_level' missing - HOMA-IR not computed.")
    ELSE
    LET c1 == Assign(c, "HOMA_IR",
                     SDivBy(SMul(Col(Df(c), "glucose_fasting"),
                                 Col(Df(c), "insulin_level")), Num(405)))
    IN Assign(c1, "insulin_resistance_flag",
              SAsInt(SGt(Col(Df(c1), "HOMA_IR"), Rat(25, 10))))

bp_category(row) ==
    IF FLt(row["systolic_bp"], Num(120)) /\ FLt(row["diastolic_bp"], Num(80))
    THEN Str("Normal")
    ELSE IF (FLe(Num(120), row["systolic_bp"]) /\ FLe(row["systolic_bp"], Num(139)))
            \/ (FLe(Num(80), row["diastolic_bp"]) /\ FLe(row["diastolic_bp"], Num(89)))
    THEN Str("Pre-Hypertension")
    ELSE Str("Hypertension")

\* df["bmi"] on a frame without that column raises KeyError('bmi')
_compute_bmi_and_bp(c) ==
    IF "bmi" \notin Columns(Df(c))
    THEN Throw(c, "KeyError", "bmi", <<"bmi">>)
    ELSE
    LET c1 == Assign(c, "bmi_category",
                     SCut(Col(Df(c), "bmi"), BmiBins, BmiLabels, TRUE))
    IN IF HasColumns(Df(c1), {"systolic_bp", "diastolic_bp"})
       THEN Assign(c1, "bp_category",
                   [i \in 1..NRows(Df(c1)) |-> bp_category(Df(c1).rows[i])])
       ELSE Warn(c1, "Blood pressure columns missing - bp_category not created.")

\* a flag that needs more than three criteria
metabolic_syndrome_gt3(c) ==
    LET required == {"bmi", "systolic_bp", "triglycerides", "hdl_cholesterol",
                     "glucose_fasting"}
        df == Df(c)
    IN IF ~HasColumns(df, required)
       THEN Warn(c, "Missing columns for metabolic syndrome - flag not created.")
       ELSE Assign(c, "metabolic_syndrome_flag",
              SAsInt(SGt(
                SAdd(SAdd(SAdd(SAdd(
                    SAsInt(SGe(Col(df, "bmi"), Num(30))),
                    SAsInt(SGe(Col(df, "systolic_bp"), Num(130)))),
                    SAsInt(SGe(Col(df, "triglycerides"), Num(150)))),
                    SAsInt(SLt(Col(df, "hdl_cholesterol"), Num(40)))),
                    SAsInt(SGe(Col(df, "glucose_fasting"), Num(110)))),
                Num(3))))

_compute_metabolic_syndrome(c) ==
    LET required == {"bmi", "systolic_bp", "triglycerides", "hdl_cholesterol",
                     "glucose_fasting"}
        df == Df(c)
    IN IF ~HasColumns(df, required)
       THEN Warn(c, "Missing columns for metabolic syndrome - flag not created.")
       ELSE Assign(c, "metabolic_syndrome_flag",
              SAsInt(SGe(
                SAdd(SAdd(SAdd(SAdd(
                    SAsInt(SGe(Col(df, "bmi"), Num(30))),
                    SAsInt(SGe(Col(df, "systolic_bp"), Num(130)))),
                    SAsInt(SGe(Col(df, "triglycerides"), Num(150)))),
                    SAsInt(SLt(Col(df, "hdl_cholesterol"), Num(40)))),
                    SAsInt(SGe(Col(df, "glucose_fasting"), Num(110)))),
                Num(3))))

MedicalTransform(c) ==
    LET c0 == Enter(c, "Creating medical features...")
    IN IF "glucose_fasting" \notin Columns(Df(c0))
       THEN Throw(c0, "KeyError",
                  "Column 'glucose_fasting' is required for medical features.",
                  <<"glucose_fasting">>)
       ELSE
       LET c1 == _compute_glucose_status(c0)
           c2 == _compute_homa_ir(c1)
           c3 == _compute_bmi_and_bp(c2)
       IN IF Failed(c3) THEN c3
          ELSE Note(_compute_metabolic_syndrome(c3),
                    "Medical features created successfully.")

\* ------------------------------------------------------------------------
\* features/clinical.py
\* ------------------------------------------------------------------------
ClinicalTransform(c) ==
    LET c0 == Enter(c, "Creating clinical interaction features...")
        c1 == IF HasColumns(Df(c0), {"hdl_cholesterol", "ldl_cholesterol"})
              THEN Assign(c0, "hdl_to_ldl_ratio",
                     SDiv(Col(Df(c0), "hdl_cholesterol"),
                          SReplaceZeroNaN(Col(Df(c0), "ldl_cholesterol"))))
              ELSE Warn(c0, "HDL or LDL cholesterol missing - hdl_to_ldl_ratio not created.")
        c2 == IF HasColumns(Df(c1), {"cholesterol_total", "hdl_cholesterol"})
              THEN Assign(c1, "cholesterol_ratio",
                     SDiv(Col(Df(c1), "cholesterol_total"),
                          SReplaceZeroNaN(Col(Df(c1), "hdl_cholesterol"))))
              ELSE Warn(c1, "Total cholesterol or HDL missing - cholesterol_ratio not created.")
        c3 == IF HasColumns(Df(c2), {"bmi", "glucose_fasting"})
              THEN Assign(c2, "bmi_glucose_interaction",
                     SMul(Col(Df(c2), "bmi"), Col(Df(c2), "glucose_fasting")))
              ELSE Warn(c2, "BMI or fasting glucose missing - bmi_glucose_interaction not created.")
        c4 == IF HasColumns(Df(c3), {"glucose_postprandial", "glucose_fasting"})
              THEN Assign(c3, "glucose_diff",
                     SSub(Col(Df(c3), "glucose_postprandial"),
                          Col(Df(c3), "glucose_fasting")))
              ELSE Warn(c3, "Postprandial or fasting glucose missing - glucose_diff not created.")
    IN Note(c4, "Clinical interaction features created successfully.")

\* ------------------------------------------------------------------------
\* features/metabolic.py
\* ------------------------------------------------------------------------
\* a Metabolic stage whose burden score needs the flag the Medical stage
\* creates
MetabolicNeedsMedical(c) ==
    LET c0 == Enter(c, "Creating advanced metabolic features...")
        c1 == IF HasColumns(Df(c0), {"glucose_fasting", "bmi"})
              THEN Assign(c0, "glycemic_load",
                     SMul(Col(Df(c0), "glucose_fasting"), Col(Df(c0), "bmi")))
              ELSE Warn(c0, "Missing glucose_fasting or bmi - glycemic_load not created.")
        c2 == IF HasColumns(Df(c1), {"triglycerides", "hdl_cholesterol"})
              THEN Assign(c1, "dyslipidemia_flag",
                     SAsInt(SOr(SGe(Col(Df(c1), "triglycerides"), Num(150)),
                                SLt(Col(Df(c1), "hdl_cholesterol"), Num(40)))))
              ELSE Warn(c1, "Missing triglycerides or hdl_cholesterol - dyslipidemia_flag not created.")
        required_score == {"bmi", "systolic_bp", "glucose_fasting", "triglycerides",
                           "hdl_cholesterol", "metabolic_syndrome_flag"}
        c3 == IF HasColumns(Df(c2), required_score)
              THEN Assign(c2, "cardiometabolic_burden_score",
                     SAdd(SAdd(SAdd(SAdd(
                        SAsInt(SGe(Col(Df(c2), "bmi"), Num(30))),
                        SAsInt(SGe(Col(Df(c2), "systolic_bp"), Num(130)))),
                        SAsInt(SGe(Col(Df(c2), "glucose_fasting"), Num(110)))),
                        SAsInt(SGe(Col(Df(c2), "triglycerides"), Num(150)))),
                        SAsInt(SLt(Col(Df(c2), "hdl_cholesterol"), Num(40)))))
              ELSE Warn(c2, "Missing columns for cardiometabolic score - cardiometabolic_burden_score not created.")
        c4 == IF HasColumns(Df(c3), {"systolic_bp", "diastolic_bp"})
              THEN Assign(c3, "bp_ratio",
                     SDiv(Col(Df(c3), "systolic_bp"),
                          SReplaceZeroNaN(Col(Df(c3), "diastolic_bp"))))
              ELSE Warn(c3, "Missing BP columns - bp_ratio not created.")
    IN Note(c4, "Advanced metabolic features created successfully.")

MetabolicTransform(c) ==
    LET c0 == Enter(c, "Creating advanced metabolic features...")
        c1 == IF HasColumns(Df(c0), {"glucose_fasting", "bmi"})
              THEN Assign(c0, "glycemic_load",
                     SMul(Col(Df(c0), "glucose_fasting"), Col(Df(c0), "bmi")))
              ELSE Warn(c0, "Missing glucose_fasting or bmi - glycemic_load not created.")
        c2 == IF HasColumns(Df(c1), {"triglycerides", "hdl_cholesterol"})
              THEN Assign(c1, "dyslipidemia_flag",
                     SAsInt(SOr(SGe(Col(Df(c1), "triglycerides"), Num(150)),
                                SLt(Col(Df(c1), "hdl_cholesterol"), Num(40)))))
              ELSE Warn(c1, "Missing triglycerides or hdl_cholesterol - dyslipidemia_flag not created.")
        required_score == {"bmi", "systolic_bp", "glucose_fasting", "triglycerides",
                           "hdl_cholesterol"}
        c3 == IF HasColumns(Df(c2), required_score)
              THEN Assign(c2, "cardiometabolic_burden_score",
                     SAdd(SAdd(SAdd(SAdd(
                        SAsInt(SGe(Col(Df(c2), "bmi"), Num(30))),
                        SAsInt(SGe(Col(Df(c2), "systolic_bp"), Num(130)))),
                        SAsInt(SGe(Col(Df(c2), "glucose_fasting"), Num(110)))),
                        SAsInt(SGe(Col(Df(c2), "triglycerides"), Num(150)))),
                        SAsInt(SLt(Col(Df(c2), "hdl_cholesterol"), Num(40)))))
              ELSE Warn(c2, "Missing columns for cardiometabolic score - cardiometabolic_burden_score not created.")
        c4 == IF HasColumns(Df(c3), {"systolic_bp", "diastolic_bp"})
              THEN Assign(c3, "bp_ratio",
                     SDiv(Col(Df(c3), "systolic_bp"),
                          SReplaceZeroNaN(Col(Df(c3), "diastolic_bp"))))
              ELSE Warn(c3, "Missing BP columns - bp_ratio not created.")
    IN Note(c4, "Advanced metabolic features created successfully.")

\* ------------------------------------------------------------------------
\* features/behavioral.py
\* ------------------------------------------------------------------------
\* a Behavioral stage that returns at its first missing column, skipping the
\* features after it
BehavioralEarlyReturn(c) ==
    LET c0 == Enter(c, "Creating behavioral features...")
    IN IF "physical_activity_minutes_per_week" \notin Columns(Df(c0))
       THEN Warn(c0, "Column 'physical_activity_minutes_per_week' missing - activity_adequacy_ratio not created.")
       ELSE
       LET c1 == Assign(c0, "activity_adequacy_ratio",
                     SClipUpper(SDivBy(Col(Df(c0), "physical_activity_minutes_per_week"),
                                       Num(150)), Num(3)))
           c2 == IF HasColumns(Df(c1), {"screen_time_hours_per_day", "sleep_hours_per_day"})
                 THEN Assign(c1, "screen_sleep_ratio",
                        SClipUpper(SDiv(Col(Df(c1), "screen_time_hours_per_day"),
                                        Col(Df(c1), "sleep_hours_per_day")), Num(5)))
                 ELSE Warn(c1, "Screen time or sleep columns missing - screen_sleep_ratio not created.")
           c3 == IF "screen_time_hours_per_day" \in Columns(Df(c2))
                 THEN Assign(c2, "sedentary_risk_flag",
                        SAsInt(SAnd(
                          SGe(Col(Df(c2), "screen_time_hours_per_day"), Num(6)),
                          SLt(Col(Df(c2), "physical_activity_minutes_per_week"), Num(150)))))
                 ELSE Warn(c2, "Missing columns for sedentary_risk_flag.")
       IN Note(c3, "Behavioral features created successfully.")

BehavioralTransform(c) ==
    LET c0 == Enter(c, "Creating behavioral features...")
        c1 == IF "physical_activity_minutes_per_week" \in Columns(Df(c0))
              THEN Assign(c0, "activity_adequacy_ratio",
                     SClipUpper(SDivBy(Col(Df(c0), "physical_activity_minutes_per_week"),
                                       Num(150)), Num(3)))
              ELSE Warn(c0, "Column 'physical_activity_minutes_per_week' missing - activity_adequacy_ratio not created.")
        c2 == IF HasColumns(Df(c1), {"screen_time_hours_per_day", "sleep_hours_per_day"})
              THEN Assign(c1, "screen_sleep_ratio",
                     SClipUpper(SDiv(Col(Df(c1), "screen_time_hours_per_day"),
                                     Col(Df(c1), "sleep_hours_per_day")), Num(5)))
              ELSE Warn(c1, "Screen time or sleep columns missing - screen_sleep_ratio not created.")
        required == {"screen_time_hours_per_day", "physical_activity_minutes_per_week"}
        c3 == IF HasColumns(Df(c2), required)
              THEN Assign(c2, "sedentary_risk_flag",
                     SAsInt(SAnd(
                       SGe(Col(Df(c2), "screen_time_hours_per_day"), Num(6)),
                       SLt(Col(Df(c2), "physical_activity_minutes_per_week"), Num(150)))))
              ELSE Warn(c2, "Missing columns for sedentary_risk_flag.")
    IN Note(c3, "Behavioral features created successfully.")

\* ------------------------------------------------------------------------
\* features/lifestyle.py
\* ------------------------------------------------------------------------
lifestyle(row) ==
    Num((IF FGe(row["diet_score"], Num(6)) THEN 2 ELSE 0)
      + (IF FGe(row["physical_activity_minutes_per_week"], Num(150)) THEN 2 ELSE 0)
      + (IF FLe(Num(7), row["sleep_hours_per_day"])
            /\ FLe(row["sleep_hours_per_day"], Num(9)) THEN 2 ELSE 0)
      + (IF FLe(row["alcohol_consumption_per_week"], Num(2)) THEN 2 ELSE 0)
      + (IF row["smoking_status"] = Str("Never") THEN 2 ELSE 0))

_compute_lifestyle_score(c) ==
    LET required == {"diet_score", "physical_activity_minutes_per_week",
                     "sleep_hours_per_day", "alcohol_consumption_per_week",
                     "smoking_status"}
    IN IF ~HasColumns(Df(c), required)
       THEN Warn(c, "Missing columns for lifestyle_score - score not created.")
       ELSE Assign(c, "lifestyle_score",
                   [i \in 1..NRows(Df(c)) |-> lifestyle(Df(c).rows[i])])

\* a sleep efficiency that adds the 1 to the screen time column itself
\* before dividing by it
sleep_efficiency_in_place(c) ==
    IF HasColumns(Df(c), {"sleep_hours_per_day", "screen_time_hours_per_day"})
    THEN LET c1 == Assign(c, "screen_time_hours_per_day",
                          SPlus(Col(Df(c), "screen_time_hours_per_day"), Num(1)))
         IN Assign(c1, "sleep_efficiency",
              SClipUpper(SDiv(Col(Df(c1), "sleep_hours_per_day"),
                              Col(Df(c1), "screen_time_hours_per_day")),
                         Num(2)))
    ELSE Warn(c, "Missing sleep or screen time columns - sleep_efficiency not created.")

_compute_sleep_efficiency(c) ==
    IF HasColumns(Df(c), {"sleep_hours_per_day", "screen_time_hours_per_day"})
    THEN Assign(c, "sleep_efficiency",
           SClipUpper(SDiv(Col(Df(c), "sleep_hours_per_day"),
                           SPlus(Col(Df(c), "screen_time_hours_per_day"), Num(1))),
                      Num(2)))
    ELSE Warn(c, "Missing sleep or screen time columns - sleep_efficiency not created.")

LifestyleTransform(c) ==
    LET c0 == Enter(c, "Creating lifestyle features...")
        c1 == _compute_lifestyle_score(c0)
        c2 == _compute_sleep_efficiency(c1)
    IN Note(c2, "Lifestyle features created successfully.")

\* ------------------------------------------------------------------------
\* The datasets the calls are made on
\* ------------------------------------------------------------------------
\* the columns of tests/conftest.py full_df, in its order, and
\* employment_status, which clean_categorical_variables reads
RawColumns ==
    <<"Age", "gender", "income_level", "education_level", "glucose_fasting",
      "hba1c", "bmi", "systolic_bp", "diastolic_bp", "triglycerides",
      "hdl_cholesterol", "ldl_cholesterol", "cholesterol_total",
      "insulin_level", "glucose_postprandial",
      "physical_activity_minutes_per_week", "screen_time_hours_per_day",
      "sleep_hours_per_day", "diet_score", "alcohol_consumption_per_week",
      "smoking_status", "employment_status">>

\* every column a stage can produce, in the order the pipeline produces them
DerivedColumns ==
    <<"age_group", "age_squared", "socioeconomic_vulnerability_flag",
      "glucose_status", "hba1c_category", "HOMA_IR", "insulin_resistance_flag",
      "bmi_category", "bp_category", "metabolic_syndrome_flag",
      "hdl_to_ldl_ratio", "cholesterol_ratio", "bmi_glucose_interaction",
      "glucose_diff", "glycemic_load", "dyslipidemia_flag",
      "cardiometabolic_burden_score", "bp_ratio", "activity_adequacy_ratio",
      "screen_sleep_ratio", "sedentary_risk_flag", "lifestyle_score",
      "sleep_efficiency">>

LeakageSeq == <<"diabetes_stage", "diabetes_risk_score">>

Universe == RawColumns \o LeakageSeq \o DerivedColumns

\* rows of raw values: the two rows of full_df, a row of zero denominators
\* and boundary values, and a row with 0/0 and a zero screen time
RowProfiles ==
    << <<Num(45), Str("Male"), Str("Low"), Str("Highschool"), Num(110),
         Rat(61, 10), Num(28), Num(135), Num(85), Num(170), Num(38), Num(140),
         Num(210), Num(18), Num(180), Num(120), Num(6), Num(7), Num(6), Num(2),
         Str("Former"), Str("Retired")>>,
       <<Num(62), Str("Other"), Str("High"), Str("Bachelor"), Num(160),
         Rat(74, 10), Num(34), Num(150), Num(95), Num(210), Num(35), Num(160),
         Num(250), Num(30), Num(240), Num(60), Num(8), Num(6), Num(4), Num(5),
         Str("Current"), Str("Employed")>>,
       <<Num(30), Str("Female"), Str("Lower-Middle"), Str("No formal"), Num(99),
         Rat(57, 10), Rat(185, 10), Num(119), Num(0), Num(100), Num(0), Num(0),
         Num(180), Num(0), Num(99), Num(150), Num(6), Num(0), Num(8), Num(0),
         Str("Never"), Str("Unemployed")>>,
       <<Num(80), Str("Unknown"), Str("Middle"), Str("Highschool"), Num(126),
         Rat(65, 10), Num(30), Num(130), Num(79), Num(150), Num(40), Num(100),
         Num(0), Num(10), Num(0), Num(0), Num(0), Num(0), Num(5), Num(3),
         Str("Ex-Smoker"), Str("Inactive")>> >>

\* rows of particular datasets: the two rows of tests/conftest.py
\* minimal_df (which has Age, glucose_fasting and bmi only), and three rows
\* that meet five, three and two of the five criteria that medical.py and
\* metabolic.py count, the last two at the thresholds
ExampleProfiles ==
    << <<Num(40), Str("Male"), Str("Low"), Str("Highschool"), Num(110),
         Rat(61, 10), Num(27), Num(135), Num(85), Num(170), Num(38), Num(140),
         Num(210), Num(18), Num(180), Num(120), Num(6), Num(7), Num(6), Num(2),
         Str("Former"), Str("Retired")>>,
       <<Num(60), Str("Other"), Str("High"), Str("Bachelor"), Num(150),
         Rat(74, 10), Num(32), Num(150), Num(95), Num(210), Num(35), Num(160),
         Num(250), Num(30), Num(240), Num(60), Num(8), Num(6), Num(4), Num(5),
         Str("Current"), Str("Employed")>>,
       <<Num(45), Str("Male"), Str("Low"), Str("Highschool"), Num(160),
         Rat(61, 10), Num(32), Num(135), Num(85), Num(170), Num(38), Num(140),
         Num(210), Num(18), Num(180), Num(120), Num(6), Num(7), Num(6), Num(2),
         Str("Former"), Str("Retired")>>,
       <<Num(45), Str("Male"), Str("Low"), Str("Highschool"), Num(110),
         Rat(61, 10), Num(30), Num(130), Num(85), Num(149), Num(40), Num(140),
         Num(210), Num(18), Num(180), Num(120), Num(6), Num(7), Num(6), Num(2),
         Str("Former"), Str("Retired")>>,
       <<Num(45), Str("Male"), Str("Low"), Str("Highschool"), Num(109),
         Rat(61, 10), Num(29), Num(129), Num(85), Num(150), Num(39), Num(140),
         Num(210), Num(18), Num(180), Num(120), Num(6), Num(7), Num(6), Num(2),
         Str("Former"), Str("Retired")>> >>

\* profile p: 1..Len(RowProfiles) are the rows of RowProfiles, the ones
\* after them the rows of ExampleProfiles
Profile(p) == (RowProfiles \o ExampleProfiles)[p]

Index(q, x) == CHOOSE i \in 1..Len(q) : q[i] = x

\* the value profile p gives column c: raw columns hold the profile's value,
\* leakage columns and columns already named like a derived feature hold a
\* value of the caller's
CellOf(p, c) ==
    IF c \in Range(RawColumns) THEN Profile(p)[Index(RawColumns, c)]
    ELSE IF c = "diabetes_risk_score" THEN Num(50)
    ELSE Str("given")

\* the DataFrame with the columns S (in the order of Universe) and one row
\* per profile of ps
MakeDf(S, ps) ==
    [cols |-> SelectSeq(Universe, LAMBDA c : c \in S),
     rows |-> [i \in 1..Len(ps) |-> [c \in S |-> CellOf(ps[i], c)]]]

AllRaw == Range(RawColumns)

\* the derived columns the pipeline produces from Age, glucose_fasting and
\* bmi alone
MinimalDerived ==
    {"age_group", "age_squared", "glucose_status", "bmi_category",
     "bmi_glucose_interaction", "glycemic_load"}

\* the column sets of the input datasets: every raw column, every raw column
\* but one, the three required columns, two of the three, with and without
\* leakage columns, with and without columns already named like derived
\* features
ColumnSets ==
    {AllRaw, REQUIRED_COLUMNS}
    \cup { AllRaw \ {c} : c \in AllRaw }
    \cup { REQUIRED_COLUMNS \ {c} : c \in REQUIRED_COLUMNS }
    \cup { AllRaw \cup L : L \in (SUBSET LEAKAGE_COLUMNS) \ {{}} }
    \cup { REQUIRED_COLUMNS \cup LEAKAGE_COLUMNS,
           REQUIRED_COLUMNS \cup MinimalDerived,
           REQUIRED_COLUMNS \cup MinimalDerived \cup LEAKAGE_COLUMNS,
           REQUIRED_COLUMNS \cup {"age_group", "glucose_status"},
           AllRaw \cup Range(DerivedColumns),
           (AllRaw \ {"smoking_status"}) \cup {"lifestyle_score"} }

RowChoices == UNION { [1..n -> 1..Len(RowProfiles)] : n \in 1..MaxRows }

\* tests/conftest.py minimal_df: {Age: [40, 60], glucose_fasting: [110, 150],
\* bmi: [27, 32]}
minimal_df ==
    MakeDf(REQUIRED_COLUMNS,
           <<Len(RowProfiles) + 1, Len(RowProfiles) + 2>>)

\* the columns the metabolic syndrome flag and the cardiometabolic burden
\* score are computed from
SyndromeColumns ==
    {"bmi", "systolic_bp", "triglycerides", "hdl_cholesterol", "glucose_fasting"}

\* minimal_df, and one-row datasets of the three threshold rows, with every
\* raw column and with Age and the five syndrome columns only
ExampleDatasets ==
    {minimal_df}
    \cup { MakeDf(S, <<Len(RowProfiles) + p>>) :
             S \in {AllRaw, SyndromeColumns \cup {"Age"}},
             p \in 3..Len(ExampleProfiles) }

\* the datasets a call is made on
Datasets ==
    { MakeDf(S, ps) : S \in ColumnSets, ps \in RowChoices }
    \cup ExampleDatasets

Strategies == {"detailed", "coarse", "fine"}

Stages == <<"demographics", "medical", "clinical", "metabolic", "behavioral",
            "lifestyle">>

Operations == {"validate", "drop_leakage", "clean"} \cup Range(Stages)

\* ------------------------------------------------------------------------
\* State
\* ------------------------------------------------------------------------
VARIABLES
    heap,    \* the DataFrame objects: heap[CallerRef] is the caller's
    cur,     \* the object the running call holds (pipeline: df_enriched)
    log,     \* the events the logger has received
    err,     \* the exception the call has raised, NoErr when none
    pc,      \* the operation to run next, "done" or "failed"
    call,    \* what the caller invoked: "transform" (the pipeline) or one
             \* operation of Operations on its own
    cfg,     \* the pipeline's age_group_strategy and validate_schema
    given,   \* the dataset as it was when the caller made the call
    order,   \* the order the six stages are applied in: Stages, the order
             \* of FeatureEngineeringPipeline.transform, unless the caller
             \* applies the stages in an order of its own
    other    \* a second call on the same pipeline object: its objects,
             \* position, events and exception; Idle when there is none

vars == <<heap, cur, log, err, pc, call, cfg, given, order, other>>

\* no second call
Idle ==
    [pc |-> "idle", call |-> "idle", cur |-> CallerRef, log |-> <<>>,
     err |-> NoErr, given |-> NoDf,
     heap |-> [r \in {CallerRef, WorkRef} |-> NoDf]]

DefaultCfg == [age_group_strategy |-> "detailed", validate_schema |-> TRUE]

\* the caller makes one call, pipeline.transform(df) or one operation alone,
\* on a dataset of Datasets; the configuration matters to the
\* pipeline and to the Demographics stage only
Init ==
    \E d \in Datasets :
        /\ given = d
        /\ heap = [r \in {CallerRef, WorkRef} |->
                     IF r = CallerRef THEN d ELSE NoDf]
        /\ cur = CallerRef
        /\ log = <<>>
        /\ err = NoErr
        /\ call \in {"transform"} \cup Operations
        /\ pc = call
        /\ cfg \in IF call = "transform"
                   THEN [age_group_strategy : Strategies,
                         validate_schema : BOOLEAN]
                   ELSE IF call = "demographics"
                   THEN [age_group_strategy : Strategies,
                         validate_schema : {TRUE}]
                   ELSE {DefaultCfg}
        /\ order = Stages
        /\ other = Idle

\* an order of the operations with Clinical before Medical
NextOpSwapped(op) ==
    CASE op = "validate" -> "drop_leakage"
      [] op = "drop_leakage" -> "clean"
      [] op = "clean" -> "demographics"
      [] op = "demographics" -> "clinical"
      [] op = "clinical" -> "medical"
      [] op = "medical" -> "metabolic"
      [] op = "metabolic" -> "behavioral"
      [] op = "behavioral" -> "lifestyle"
      [] OTHER -> "finish"

\* the operation after op when the six stages are applied in the order ord
NextOpIn(ord, op) ==
    CASE op = "validate" -> "drop_leakage"
      [] op = "drop_leakage" -> "clean"
      [] op = "clean" -> ord[1]
      [] op = ord[Len(ord)] -> "finish"
      [] OTHER -> ord[Index(ord, op) + 1]

\* the operation after op in FeatureEngineeringPipeline.transform
NextOp(op) == NextOpIn(order, op)

\* the call returns c, or raises c.err: an exception ends the whole call,
\* a stage called alone returns to the caller, the pipeline goes on
Continue(c, op) ==
    /\ heap' = c.heap
    /\ log' = c.log
    /\ err' = c.err
    /\ pc' = IF Failed(c) THEN "failed"
             ELSE IF call = "transform" THEN NextOp(op) ELSE "done"
    /\ UNCHANGED <<call, cfg, given, order, other>>

Here == Ctx(heap, cur, log, NoErr)

\* a transform that never validates
TransformSkipsValidation ==
    /\ pc = "transform"
    /\ LET cp == DataFrameCopy(heap, cur)
       IN /\ heap' = cp.heap
          /\ cur' = cp.ref
    /\ log' = LogInfo(log, "Starting feature engineering pipeline...")
    /\ pc' = "drop_leakage"
    /\ UNCHANGED <<err, call, cfg, given, order, other>>

\* transform, lines 84-88: log, deep copy, then validation if configured
Transform ==
    /\ pc = "transform"
    /\ LET cp == DataFrameCopy(heap, cur)
       IN /\ heap' = cp.heap
          /\ cur' = cp.ref
    /\ log' = LogInfo(log, "Starting feature engineering pipeline...")
    /\ pc' = IF cfg.validate_schema THEN "validate" ELSE "drop_leakage"
    /\ UNCHANGED <<err, call, cfg, given, order, other>>

\* self.schema_validator.validate(df): on the caller's df, returns nothing
Validate ==
    /\ pc = "validate"
    /\ Continue(validate(Ctx(heap, CallerRef, log, NoErr)), "validate")
    /\ UNCHANGED cur

DropLeakage ==
    /\ pc = "drop_leakage"
    /\ LET c == drop_leakage_columns(Here)
       IN Continue(c, "drop_leakage") /\ cur' = c.ref

Clean ==
    /\ pc = "clean"
    /\ LET c == clean_categorical_variables(Here)
       IN Continue(c, "clean") /\ cur' = c.ref

\* a Demographics step that replaces an unknown strategy by "detailed" and
\* keeps the replacement on the pipeline object
DemographicsKeepsFallback ==
    /\ pc = "demographics"
    /\ LET st == IF cfg.age_group_strategy \in {"detailed", "coarse"}
                 THEN cfg.age_group_strategy ELSE "detailed"
           c == DemographicsTransform(Here, st)
       IN /\ heap' = c.heap
          /\ log' = c.log
          /\ err' = c.err
          /\ cur' = IF Failed(c) THEN cur ELSE c.ref
          /\ pc' = IF Failed(c) THEN "failed"
                   ELSE IF call = "transform" THEN NextOp("demographics")
                   ELSE "done"
          /\ cfg' = [cfg EXCEPT !.age_group_strategy = st]
    /\ UNCHANGED <<call, given, order, other>>

\* df_enriched = stage.transform(df_enriched): rebound only on return
Demographics ==
    /\ pc = "demographics"
    /\ LET c == DemographicsTransform(Here, cfg.age_group_strategy)
       IN Continue(c, "demographics") /\ cur' = IF Failed(c) THEN cur ELSE c.ref

Medical ==
    /\ pc = "medical"
    /\ LET c == MedicalTransform(Here)
       IN Continue(c, "medical") /\ cur' = IF Failed(c) THEN cur ELSE c.ref

Clinical ==
    /\ pc = "clinical"
    /\ LET c == ClinicalTransform(Here)
       IN Continue(c, "clinical") /\ cur' = c.ref

Metabolic ==
    /\ pc = "metabolic"
    /\ LET c == MetabolicTransform(Here)
       IN Continue(c, "metabolic") /\ cur' = c.ref

Behavioral ==
    /\ pc = "behavioral"
    /\ LET c == BehavioralTransform(Here)
       IN Continue(c, "behavioral") /\ cur' = c.ref

Lifestyle ==
    /\ pc = "lifestyle"
    /\ LET c == LifestyleTransform(Here)
       IN Continue(c, "lifestyle") /\ cur' = c.ref

\* a transform that ends with "return df"
FinishReturnsInput ==
    /\ pc = "finish"
    /\ log' = LogInfo(log, "Pipeline completed successfully")
    /\ pc' = "done"
    /\ cur' = CallerRef
    /\ UNCHANGED <<heap, err, call, cfg, given, order, other>>

\* transform, lines 132-135
Finish ==
    /\ pc = "finish"
    /\ log' = LogInfo(log, "Pipeline completed successfully")
    /\ pc' = "done"
    /\ cur' = cur
    /\ UNCHANGED <<heap, err, call, cfg, given, order, other>>

Next ==
    \/ Transform
    \/ Validate
    \/ DropLeakage
    \/ Clean
    \/ Demographics
    \/ Medical
    \/ Clinical
    \/ Metabolic
    \/ Behavioral
    \/ Lifestyle
    \/ Finish

Spec == Init /\ [][Next]_vars

\* the dataset a finished call returned
Output == heap[cur]

\* ------------------------------------------------------------------------
\* Two calls on one pipeline object
\* ------------------------------------------------------------------------
\* A call of operation op on the dataset d, about to start.  Every call has
\* its own DataFrame objects and is given its own record of the events it
\* logged, apart from the other call's.
NewCall(op, d) ==
    [pc |-> op, call |-> op, cur |-> CallerRef, log |-> <<>>, err |-> NoErr,
     given |-> d,
     heap |-> [r \in {CallerRef, WorkRef} |-> IF r = CallerRef THEN d ELSE NoDf]]

\* the pre-processing function or stage op applied to c
Apply(op, c, strategy) ==
    CASE op = "drop_leakage" -> drop_leakage_columns(c)
      [] op = "clean" -> clean_categorical_variables(c)
      [] op = "demographics" -> DemographicsTransform(c, strategy)
      [] op = "medical" -> MedicalTransform(c)
      [] op = "clinical" -> ClinicalTransform(c)
      [] op = "metabolic" -> MetabolicTransform(c)
      [] op = "behavioral" -> BehavioralTransform(c)
      [] OTHER -> LifestyleTransform(c)

\* the call k after its pre-processing function or stage ended as c: on an
\* exception the call fails, else df_enriched is rebound to the result
AfterApply(k, c) ==
    [k EXCEPT !.heap = c.heap,
              !.log = c.log,
              !.err = c.err,
              !.cur = IF Failed(c) THEN k.cur ELSE c.ref,
              !.pc = IF Failed(c) THEN "failed"
                     ELSE IF k.call = "transform"
                     THEN NextOpIn(Stages, k.pc)
                     ELSE "done"]

\* One step of the call k on a pipeline object whose configuration is
\* config: the statement of FeatureEngineeringPipeline.transform at k.pc.
\* The steps read self.validate_schema and the stage objects' configuration
\* and nothing else of the pipeline object.
StepCall(k, config) ==
    IF k.pc = "transform"
    THEN LET cp == DataFrameCopy(k.heap, k.cur)
         IN [k EXCEPT !.heap = cp.heap,
                      !.cur = cp.ref,
                      !.log = LogInfo(k.log, "Starting feature engineering pipeline..."),
                      !.pc = IF config.validate_schema THEN "validate"
                             ELSE "drop_leakage"]
    ELSE IF k.pc = "validate"
    THEN LET c == validate(Ctx(k.heap, CallerRef, k.log, NoErr))
         IN [k EXCEPT !.log = c.log,
                      !.err = c.err,
                      !.pc = IF Failed(c) THEN "failed"
                             ELSE IF k.call = "transform" THEN "drop_leakage"
                             ELSE "done"]
    ELSE IF k.pc = "finish"
    THEN [k EXCEPT !.log = LogInfo(k.log, "Pipeline completed successfully"),
                   !.pc = "done"]
    ELSE AfterApply(k, Apply(k.pc, Ctx(k.heap, k.cur, k.log, NoErr),
                             config.age_group_strategy))

\* the call k run to its end with no other call on the pipeline object
RECURSIVE RunAlone(_, _)
RunAlone(k, config) ==
    IF k.pc \in {"done", "failed"} THEN k
    ELSE RunAlone(StepCall(k, config), config)

\* the second call takes its next step
OtherStep ==
    /\ other.pc \notin {"idle", "done", "failed"}
    /\ other' = StepCall(other, cfg)
    /\ UNCHANGED <<heap, cur, log, err, pc, call, cfg, given, order>>

\* the caller makes the same call again, on the dataset the first returned
CallAgain ==
    /\ pc = "done"
    /\ other = Idle
    /\ other' = NewCall(call, Output)
    /\ UNCHANGED <<heap, cur, log, err, pc, call, cfg, given, order>>

\* the datasets of the two-call runs
ColumnSetsTwo ==
    {AllRaw, REQUIRED_COLUMNS,
     AllRaw \cup LEAKAGE_COLUMNS,
     REQUIRED_COLUMNS \cup MinimalDerived \cup LEAKAGE_COLUMNS,
     AllRaw \cup Range(DerivedColumns),
     (AllRaw \ {"smoking_status"}) \cup {"lifestyle_score"},
     AllRaw \ {"gender"},
     AllRaw \ {"hdl_cholesterol"},
     AllRaw \ {"Age"},
     REQUIRED_COLUMNS \ {"bmi"}}

DatasetsTwo ==
    { MakeDf(S, ps) : S \in ColumnSetsTwo, ps \in RowChoices }
    \cup ExampleDatasets

\* the datasets of two concurrent calls: full_df, minimal_df, a row of zero
\* denominators with the leakage columns, and a dataset without bmi
ConcurrentDatasets ==
    {MakeDf(AllRaw, <<1, 2>>), minimal_df,
     MakeDf(AllRaw \cup LEAKAGE_COLUMNS, <<3>>),
     MakeDf(REQUIRED_COLUMNS \ {"bmi"}, <<4>>)}

\* the caller calls transform or clean_categorical_variables, and then
\* either calls it again on the result, or has a second transform running
\* on the same pipeline object at the same time
InitTwo ==
    \E d \in DatasetsTwo \cup ConcurrentDatasets :
        /\ given = d
        /\ heap = [r \in {CallerRef, WorkRef} |->
                     IF r = CallerRef THEN d ELSE NoDf]
        /\ cur = CallerRef
        /\ log = <<>>
        /\ err = NoErr
        /\ call \in {"transform", "clean"}
        /\ pc = call
        /\ cfg \in IF call = "transform"
                   THEN [age_group_strategy : Strategies,
                         validate_schema : BOOLEAN]
                   ELSE {DefaultCfg}
        /\ order = Stages
        /\ other \in {Idle} \cup
                     IF call = "transform" /\ d \in ConcurrentDatasets
                     THEN { NewCall("transform", d2) : d2 \in ConcurrentDatasets }
                     ELSE {}

NextTwo ==
    \/ Next
    \/ OtherStep
    \/ CallAgain

SpecTwo == InitTwo /\ [][NextTwo]_vars

\* the dataset the second call returned
OtherOutput == other.heap[other.cur]

\* ------------------------------------------------------------------------
\* The six stages applied in any order
\* ------------------------------------------------------------------------
\* the orders of the six stages
StageOrders ==
    { o \in [1..Len(Stages) -> Range(Stages)] :
        \A i, j \in 1..Len(Stages) : o[i] = o[j] => i = j }

\* the datasets the orders are tried on: the first and the third row
\* profile, in every raw column, in the three required columns, in every
\* raw column but hdl_cholesterol, and with every derived name already
\* there
DatasetsAnyOrder ==
    { MakeDf(S, <<p>>) :
        S \in {AllRaw, REQUIRED_COLUMNS, AllRaw \ {"hdl_cholesterol"},
               AllRaw \cup Range(DerivedColumns) \cup LEAKAGE_COLUMNS},
        p \in {1, 3} }

\* a transform whose six stage calls are made in the order "order"
InitAnyOrder ==
    \E d \in DatasetsAnyOrder :
        /\ given = d
        /\ heap = [r \in {CallerRef, WorkRef} |->
                     IF r = CallerRef THEN d ELSE NoDf]
        /\ cur = CallerRef
        /\ log = <<>>
        /\ err = NoErr
        /\ call = "transform"
        /\ pc = call
        /\ cfg \in {DefaultCfg,
                    [age_group_strategy |-> "coarse", validate_schema |-> FALSE]}
        /\ order \in StageOrders
        /\ other = Idle

SpecAnyOrder == InitAnyOrder /\ [][Next]_vars

\* ------------------------------------------------------------------------
\* Vocabulary of the properties
\* ------------------------------------------------------------------------
Returned == pc = "done"
Raised == pc = "failed"
ValidStrategy == cfg.age_group_strategy \in {"detailed", "coarse"}
HasRequired == REQUIRED_COLUMNS \subseteq Columns(given)
Messages == [i \in 1..Len(log) |-> log[i].msg]
Logged(m) == \E i \in 1..Len(log) : log[i].msg = m
Warnings == { i \in 1..Len(log) : log[i].level = "WARNING" }
Errors == { i \in 1..Len(log) : log[i].level = "ERROR" }
\* every event with message a comes before every event with message b
Before(a, b) ==
    \A i, j \in 1..Len(log) : log[i].msg = a /\ log[j].msg = b => i < j

StageStart ==
    <<"Creating demographic features...", "Creating medical features...",
      "Creating clinical interaction features...",
      "Creating advanced metabolic features...",
      "Creating behavioral features...", "Creating lifestyle features...">>
LeakageEvents == {"Removing leakage columns", "No leakage columns detected."}
CleanStart == "Cleaning categorical variables..."
ValidateStart == "Validating input data schema..."

\* ------------------------------------------------------------------------
\* C1: no call ever changes the caller's dataset: at every point of the
\* pipeline's transform and of every operation called on its own, whether
\* it returns or raises, the caller's object has the columns, column order,
\* rows and values it had when the call was made.
\* ------------------------------------------------------------------------
C1_InputNeverMutated == heap[CallerRef] = given

\* a pipeline run that returned an enriched dataset
C1_Witness ==
    /\ call = "transform"
    /\ Returned
    /\ Len(Output.cols) > Len(given.cols)
    /\ heap[CallerRef] = given

\* ------------------------------------------------------------------------
\* C2: validate returns normally iff Age, glucose_fasting and bmi are all
\* present; otherwise it logs exactly one error event and raises
\* SchemaValidationError carrying the sorted list of exactly the required
\* columns that are absent.  The same error ends a pipeline run that
\* validates.
\* ------------------------------------------------------------------------
C2_MissingSorted ==
    SelectSeq(<<"Age", "bmi", "glucose_fasting">>,
              LAMBDA c : c \notin Columns(given))

C2_ValidateContract ==
    /\ (call = "validate" /\ pc # "validate") =>
          /\ Returned <=> HasRequired
          /\ Returned => Errors = {}
          /\ Raised =>
                /\ err.type = "SchemaValidationError"
                /\ err.list = C2_MissingSorted
                /\ Cardinality(Errors) = 1
    /\ (call = "transform" /\ cfg.validate_schema
            /\ pc \notin {"transform", "validate"}) =>
          IF HasRequired
          THEN err.type # "SchemaValidationError"
          ELSE /\ Raised
               /\ err.type = "SchemaValidationError"
               /\ err.list = C2_MissingSorted
               /\ Cardinality(Errors) = 1

\* validate on a dataset with only Age and bmi
C2_Witness ==
    /\ call = "validate"
    /\ Columns(given) = {"Age", "bmi"}
    /\ Raised
    /\ err.list = <<"glucose_fasting">>

\* ------------------------------------------------------------------------
\* C3: on a dataset with the three required columns and a valid strategy a
\* pipeline run never raises, is always at a step that can run until it
\* returns (every action is enabled by pc alone), and
\* has then run the six stages exactly once each in the order Demographics,
\* Medical, Clinical, Metabolic, Behavioral, Lifestyle, each on the output
\* of the one before; when schema validation fails nothing else has run and
\* the working copy is untouched.
\* ------------------------------------------------------------------------
C3_StagesRun ==
    SelectSeq(Messages, LAMBDA m : m \in Range(StageStart))

C3_StagesInOrder ==
    call = "transform" =>
       /\ (HasRequired /\ ValidStrategy) =>
             /\ ~Raised
             /\ ~Returned => pc \in {"transform", "finish"} \cup Operations
             /\ Returned =>
                   /\ C3_StagesRun = StageStart
                   /\ MinimalDerived \subseteq Columns(Output)
       /\ (Raised /\ err.type = "SchemaValidationError") =>
             /\ C3_StagesRun = <<>>
             /\ ~\E m \in LeakageEvents \cup {CleanStart} : Logged(m)
             /\ heap[WorkRef] = given

C3_Witness ==
    /\ call = "transform"
    /\ Returned
    /\ HasRequired
    /\ cfg.validate_schema
    /\ C3_StagesRun = StageStart

\* ------------------------------------------------------------------------
\* C4 as stated: in a pipeline run that validates, the schema validator
\* runs after the leakage filter and the categorical normalizer.
\* ------------------------------------------------------------------------
C4_ValidatorRunsAfterCleaning ==
    (call = "transform" /\ cfg.validate_schema /\ Logged(ValidateStart)) =>
        /\ \E m \in LeakageEvents : Logged(m)
        /\ Logged(CleanStart)
        /\ Before(CleanStart, ValidateStart)

\* C4 as the code has it: in a pipeline run that validates, the schema
\* validator runs first, on the dataset as the caller gave it (leakage
\* columns still in it, labels not yet normalized); only after it has
\* succeeded do the leakage filter, then the normalizer, then the six stages
\* run; a validation failure ends the run with none of them started.
C4_ValidatorRunsFirst ==
    (call = "transform" /\ cfg.validate_schema) =>
        /\ \A m \in LeakageEvents \cup {CleanStart} \cup Range(StageStart) :
              Logged(m) =>
                 /\ Logged("Schema validation completed successfully.")
                 /\ Before("Schema validation completed successfully.", m)
        /\ pc = "validate" => heap[WorkRef] = given
        /\ \A m \in LeakageEvents : Before(m, CleanStart)
        /\ \A i \in 1..Len(StageStart) : Before(CleanStart, StageStart[i])
        /\ (Raised /\ err.type = "SchemaValidationError") =>
              ~\E m \in LeakageEvents \cup {CleanStart} : Logged(m)
        /\ Returned =>
              /\ \E m \in LeakageEvents : Logged(m)
              /\ Logged(CleanStart)

\* a validated run on a dataset with a leakage column, which the validator
\* saw and the leakage filter then removed
C4_Witness ==
    /\ call = "transform"
    /\ cfg.validate_schema
    /\ Returned
    /\ "diabetes_stage" \in Columns(given)
    /\ Logged("Removing leakage columns")
    /\ Before(ValidateStart, "Removing leakage columns")

\* ------------------------------------------------------------------------
\* C5: every call that returns a dataset returns one with as many rows as
\* its input, in the same order: row i of the output holds the values row i
\* of the input has in the numeric raw columns.
\* ------------------------------------------------------------------------
C5_Untouched == AllRaw \ {"gender", "employment_status", "smoking_status"}

C5_RowCountInvariant ==
    (Returned /\ call # "validate") =>
        /\ NRows(Output) = NRows(given)
        /\ \A i \in 1..NRows(given) :
              \A c \in C5_Untouched \cap Columns(given) :
                  /\ c \in Columns(Output)
                  /\ Output.rows[i][c] = given.rows[i][c]

\* a pipeline run on two different rows
C5_Witness ==
    /\ call = "transform"
    /\ Returned
    /\ NRows(given) >= 2
    /\ given.rows[1] # given.rows[2]
    /\ NRows(Output) = NRows(given)

\* ------------------------------------------------------------------------
\* C6 as stated: every column of the input is a column of the output of a
\* pipeline run that returned.
\* ------------------------------------------------------------------------
C6_OutputKeepsEveryInputColumn ==
    (call = "transform" /\ Returned) => Columns(given) \subseteq Columns(Output)

\* C6 as the code has it: every column of the input other than
\* diabetes_stage and diabetes_risk_score is a column of the output; those
\* two are removed.
C6_OutputKeepsNonLeakageColumns ==
    (call = "transform" /\ Returned) =>
        /\ Columns(given) \ {"diabetes_stage", "diabetes_risk_score"}
              \subseteq Columns(Output)
        /\ Columns(Output) \cap {"diabetes_stage", "diabetes_risk_score"} = {}

\* a run on every raw column and a leakage column
C6_Witness ==
    /\ call = "transform"
    /\ Returned
    /\ AllRaw \cup {"diabetes_stage"} \subseteq Columns(given)
    /\ AllRaw \subseteq Columns(Output)
    /\ "diabetes_stage" \notin Columns(Output)

\* ------------------------------------------------------------------------
\* C7 as stated: the output of a pipeline run that returned has strictly
\* more columns than the input, for any input.
\* ------------------------------------------------------------------------
C7_ColumnCountAlwaysGrows ==
    (call = "transform" /\ Returned) => Len(Output.cols) > Len(given.cols)

\* C7 as the code has it: the output has strictly more columns than the
\* input when the input has no column named like a derived feature (leakage
\* columns or not); a derived column the input already has is overwritten
\* in place, so in general the output has at least the input's columns less
\* its leakage columns.
C7_ColumnCountGrowsOnRawInput ==
    (call = "transform" /\ Returned) =>
        /\ Columns(given) \cap Range(DerivedColumns) = {} =>
              Len(Output.cols) > Len(given.cols)
        /\ Len(Output.cols) >=
              Len(given.cols)
                - Cardinality(Columns(given)
                                \cap {"diabetes_stage", "diabetes_risk_score"})

\* a run on the three required columns and both leakage columns
C7_Witness ==
    /\ call = "transform"
    /\ Returned
    /\ Columns(given) =
          {"Age", "glucose_fasting", "bmi", "diabetes_stage", "diabetes_risk_score"}
    /\ Len(Output.cols) > Len(given.cols)

\* ------------------------------------------------------------------------
\* C8: on a dataset with Age, glucose_fasting and bmi, whatever else it has,
\* the Demographics stage (valid strategy) returns a dataset with computed
\* age_group and age_squared, and the Medical stage returns one with
\* computed glucose_status and bmi_category; neither raises.
\* ------------------------------------------------------------------------
C8_Computed(S) ==
    /\ S \subseteq Columns(Output)
    /\ \A c \in S : \A i \in 1..NRows(Output) : Output.rows[i][c] # Str("given")

C8_CoreFeaturesAlwaysAdded ==
    /\ (call = "demographics" /\ pc # "demographics" /\ HasRequired
            /\ ValidStrategy) =>
          Returned /\ C8_Computed({"age_group", "age_squared"})
    /\ (call = "medical" /\ pc # "medical" /\ HasRequired) =>
          Returned /\ C8_Computed({"glucose_status", "bmi_category"})

\* the Medical stage on the three required columns alone
C8_Witness ==
    /\ call = "medical"
    /\ Returned
    /\ Columns(given) = REQUIRED_COLUMNS
    /\ {"glucose_status", "bmi_category"} \subseteq Columns(Output)

\* ------------------------------------------------------------------------
\* The input columns each derived feature is computed from (spec 4.3-4.8)
\* ------------------------------------------------------------------------
Requires(F) ==
    CASE F \in {"age_group", "age_squared"} -> {"Age"}
      [] F = "socioeconomic_vulnerability_flag" -> {"income_level", "education_level"}
      [] F = "glucose_status" -> {"glucose_fasting"}
      [] F = "hba1c_category" -> {"hba1c"}
      [] F \in {"HOMA_IR", "insulin_resistance_flag"} ->
            {"glucose_fasting", "insulin_level"}
      [] F = "bmi_category" -> {"bmi"}
      [] F \in {"bp_category", "bp_ratio"} -> {"systolic_bp", "diastolic_bp"}
      [] F \in {"metabolic_syndrome_flag", "cardiometabolic_burden_score"} ->
            {"bmi", "systolic_bp", "triglycerides", "hdl_cholesterol",
             "glucose_fasting"}
      [] F = "hdl_to_ldl_ratio" -> {"hdl_cholesterol", "ldl_cholesterol"}
      [] F = "cholesterol_ratio" -> {"cholesterol_total", "hdl_cholesterol"}
      [] F \in {"bmi_glucose_interaction", "glycemic_load"} ->
            {"bmi", "glucose_fasting"}
      [] F = "glucose_diff" -> {"glucose_postprandial", "glucose_fasting"}
      [] F = "dyslipidemia_flag" -> {"triglycerides", "hdl_cholesterol"}
      [] F = "activity_adequacy_ratio" -> {"physical_activity_minutes_per_week"}
      [] F \in {"screen_sleep_ratio", "sleep_efficiency"} ->
            {"screen_time_hours_per_day", "sleep_hours_per_day"}
      [] F = "sedentary_risk_flag" ->
            {"screen_time_hours_per_day", "physical_activity_minutes_per_week"}
      [] F = "lifestyle_score" ->
            {"diet_score", "physical_activity_minutes_per_week",
             "sleep_hours_per_day", "alcohol_consumption_per_week",
             "smoking_status"}

\* the derived features computed behind a column-presence check
OptionalFeatures ==
    Range(DerivedColumns)
        \ {"age_group", "age_squared", "glucose_status", "bmi_category"}

\* ------------------------------------------------------------------------
\* C9 as stated: for every optional feature F and every input column c of
\* F, the pipeline (valid strategy) on the full dataset less c returns,
\* without F, with a warning logged, and with every derived column that
\* does not need c.
\* ------------------------------------------------------------------------
C9_OmissionOfAnyInputColumn ==
    (call = "transform" /\ ValidStrategy /\ (Returned \/ Raised)) =>
        \A F \in OptionalFeatures : \A c \in Requires(F) :
            Columns(given) = AllRaw \ {c} =>
                /\ Returned
                /\ F \notin Columns(Output)
                /\ Warnings # {}
                /\ \A G \in Range(DerivedColumns) :
                      c \notin Requires(G) => G \in Columns(Output)

\* C9 as the code has it: the same for every input column c of F other than
\* Age, glucose_fasting and bmi, on any dataset that has those three and
\* has neither c nor a column already named F: the run never raises and
\* returns without F, with a warning logged, and with every derived column
\* whose own input columns are all present.  (Without glucose_fasting or
\* bmi the run raises: SchemaValidationError when it validates, KeyError
\* from the Medical stage when it does not.)
C9_OmissionOfOptionalColumn ==
    (call = "transform" /\ ValidStrategy /\ HasRequired) =>
        /\ ~Raised
        /\ Returned =>
              \A F \in OptionalFeatures : \A c \in Requires(F) \ REQUIRED_COLUMNS :
                  (c \notin Columns(given) /\ F \notin Columns(given)) =>
                      /\ F \notin Columns(Output)
                      /\ Warnings # {}
                      /\ \A G \in Range(DerivedColumns) :
                            (c \notin Requires(G)
                                /\ Requires(G) \subseteq Columns(given)) =>
                               G \in Columns(Output)

\* the full dataset less ldl_cholesterol: no hdl_to_ldl_ratio, a warning,
\* and the other lipid ratio still there
C9_Witness ==
    /\ call = "transform"
    /\ Returned
    /\ Columns(given) = AllRaw \ {"ldl_cholesterol"}
    /\ "hdl_to_ldl_ratio" \notin Columns(Output)
    /\ "cholesterol_ratio" \in Columns(Output)
    /\ Warnings # {}

\* ------------------------------------------------------------------------
\* C10: in every row where the denominator column of a ratio column is 0,
\* the ratio a call computed is the missing value.
\* ------------------------------------------------------------------------
RatioDenominator(R) ==
    CASE R = "hdl_to_ldl_ratio" -> "ldl_cholesterol"
      [] R = "cholesterol_ratio" -> "hdl_cholesterol"
      [] R = "bp_ratio" -> "diastolic_bp"
      [] R = "screen_sleep_ratio" -> "sleep_hours_per_day"
      [] R = "sleep_efficiency" -> "screen_time_hours_per_day"

RatioColumns ==
    {"hdl_to_ldl_ratio", "cholesterol_ratio", "bp_ratio", "screen_sleep_ratio",
     "sleep_efficiency"}

C10_ZeroDenominatorGivesMissing ==
    (Returned /\ call # "validate") =>
        \A R \in RatioColumns :
            (R \in Columns(Output) /\ R \notin Columns(given)
                /\ RatioDenominator(R) \in Columns(given)) =>
               \A i \in 1..NRows(given) :
                   FEq(given.rows[i][RatioDenominator(R)], Num(0)) =>
                       IsNaN(Output.rows[i][R])

\* ------------------------------------------------------------------------
\* C11 and C12 speak of the exception a call ends with; T is its type.
\* ------------------------------------------------------------------------
\* the stages that have started, in the order they started
StagesStarted == SelectSeq(Messages, LAMBDA m : m \in Range(StageStart))

\* Demographics on a dataset without Age, and Medical on one without
\* glucose_fasting, raise an exception of type T naming the column and
\* return nothing; a pipeline that does not validate ends with that same
\* exception, and no stage after the failing one has started.
C11_HardPreconditions(T) ==
    /\ (call = "demographics" /\ "Age" \notin Columns(given)
           /\ pc # "demographics")
          => Raised /\ err.type = T /\ err.list = <<"Age">>
    /\ (call = "medical" /\ "glucose_fasting" \notin Columns(given)
           /\ pc # "medical")
          => Raised /\ err.type = T /\ err.list = <<"glucose_fasting">>
    /\ (call = "transform" /\ ~cfg.validate_schema
           /\ "Age" \notin Columns(given))
          => /\ pc \in {"transform", "drop_leakage", "clean", "demographics",
                        "failed"}
             /\ Raised => /\ err.type = T
                          /\ err.list = <<"Age">>
                          /\ StagesStarted = SubSeq(StageStart, 1, 1)
                          /\ ~Logged("Pipeline completed successfully")
    /\ (call = "transform" /\ ~cfg.validate_schema /\ ValidStrategy
           /\ "Age" \in Columns(given)
           /\ "glucose_fasting" \notin Columns(given))
          => /\ pc \in {"transform", "drop_leakage", "clean", "demographics",
                        "medical", "failed"}
             /\ Raised => /\ err.type = T
                          /\ err.list = <<"glucose_fasting">>
                          /\ StagesStarted = SubSeq(StageStart, 1, 2)
                          /\ ~Logged("Pipeline completed successfully")

\* ------------------------------------------------------------------------
\* C11 as stated: the exception of the two hard stage preconditions is a
\* MissingColumnError.
\* ------------------------------------------------------------------------
C11_RaisesMissingColumnError == C11_HardPreconditions("MissingColumnError")

\* ------------------------------------------------------------------------
\* C11, amended: the exception of the two hard stage preconditions is
\* Python's KeyError (demographics.py line 89, medical.py line 139; the
\* package defines no MissingColumnError).  Demographics without Age and
\* Medical without glucose_fasting raise it and return nothing; a pipeline
\* that does not validate ends with the same KeyError and no later stage
\* has started.
\* ------------------------------------------------------------------------
C11_RaisesKeyError == C11_HardPreconditions("KeyError")

\* a pipeline that does not validate, on a dataset with Age and without
\* glucose_fasting, ended by the Medical stage's KeyError
C11_Witness ==
    /\ call = "transform"
    /\ ~cfg.validate_schema
    /\ "Age" \in Columns(given)
    /\ "glucose_fasting" \notin Columns(given)
    /\ Raised
    /\ err.type = "KeyError"
    /\ err.list = <<"glucose_fasting">>

\* a strategy other than "detailed" and "coarse" is accepted when the
\* object is built; on a dataset with Age the Demographics stage, called
\* alone or reached by the pipeline, raises an exception of type T whose
\* message lists the valid options, right after its first log line, and
\* the dataset it worked on has gained no column.
C12_InvalidStrategy(T) ==
    (/\ ~ValidStrategy
     /\ call \in {"demographics", "transform"}
     /\ "Age" \in Columns(given)
     /\ (call = "transform" /\ cfg.validate_schema) => HasRequired)
    => /\ pc \in {"transform", "validate", "drop_leakage", "clean",
                  "demographics", "failed"}
       /\ ~Raised => err = NoErr
       /\ Raised => /\ err.type = T
                    /\ err.list = <<"detailed", "coarse">>
                    /\ Messages[Len(log)] = "Creating demographic features..."
                    /\ Columns(heap[WorkRef]) \subseteq Columns(given)
                    /\ call = "demographics" => heap[WorkRef] = given

\* ------------------------------------------------------------------------
\* C12 as stated: the exception of an unknown age_group_strategy is an
\* InvalidConfigurationError.
\* ------------------------------------------------------------------------
C12_RaisesInvalidConfigurationError ==
    C12_InvalidStrategy("InvalidConfigurationError")

\* ------------------------------------------------------------------------
\* C12, amended: the exception of an unknown age_group_strategy is Python's
\* ValueError (demographics.py lines 62-65; the package defines no
\* InvalidConfigurationError).  It is raised when the Demographics stage
\* runs on a dataset with Age, never earlier; its message lists
\* ['detailed', 'coarse']; no age_group or age_squared is produced; the
\* pipeline ends with the same ValueError.
\* ------------------------------------------------------------------------
C12_RaisesValueError == C12_InvalidStrategy("ValueError")

\* a pipeline built with the strategy "fine", ended by the ValueError
C12_Witness ==
    /\ call = "transform"
    /\ cfg.age_group_strategy = "fine"
    /\ HasRequired
    /\ Raised
    /\ err.type = "ValueError"

\* the label of a glucose_fasting value in the bins (0,99], (99,125],
\* (125,inf), and of a bmi value in the bins (0,18.5], (18.5,24.9],
\* (24.9,29.9], (29.9,inf), by comparison
C13_GlucoseLabel(v) ==
    IF FLe(v, Num(99)) THEN Str("Normal")
    ELSE IF FLe(v, Num(125)) THEN Str("Pre-Diabetes")
    ELSE Str("Diabetes")

C13_BmiLabel(v) ==
    IF FLe(v, Rat(185, 10)) THEN Str("Underweight")
    ELSE IF FLe(v, Rat(249, 10)) THEN Str("Normal")
    ELSE IF FLe(v, Rat(299, 10)) THEN Str("Overweight")
    ELSE Str("Obese")

\* on minimal_df validate passes and the pipeline (valid strategy) returns
\* with glucose_status = [Pre-Diabetes, Diabetes] and bmi_category =
\* expected; on every dataset (all of whose glucose_fasting and bmi values
\* are positive) the two columns hold the labels of the right-closed bins
C13_MinimalDataset(expected) ==
    /\ (given = minimal_df /\ call = "validate" /\ pc # "validate")
          => Returned
    /\ (given = minimal_df /\ call = "transform" /\ ValidStrategy)
          => /\ ~Raised
             /\ Returned =>
                   /\ Col(Output, "glucose_status")
                         = <<Str("Pre-Diabetes"), Str("Diabetes")>>
                   /\ Col(Output, "bmi_category") = expected
    /\ (call \in {"transform", "medical"} /\ Returned)
          => \A i \in 1..NRows(Output) :
                /\ Output.rows[i]["glucose_status"]
                      = C13_GlucoseLabel(given.rows[i]["glucose_fasting"])
                /\ Output.rows[i]["bmi_category"]
                      = C13_BmiLabel(given.rows[i]["bmi"])

\* ------------------------------------------------------------------------
\* C13 as stated: on the minimal dataset validate passes, the pipeline
\* succeeds, glucose_status = [Pre-Diabetes, Diabetes] and bmi_category =
\* [Normal, Obese], in the right-closed bins.
\* ------------------------------------------------------------------------
C13_BmiCategoryNormalObese ==
    C13_MinimalDataset(<<Str("Normal"), Str("Obese")>>)

\* ------------------------------------------------------------------------
\* C13, amended: on the minimal dataset validate passes, the pipeline
\* succeeds, glucose_status = [Pre-Diabetes, Diabetes] and bmi_category =
\* [Overweight, Obese]: a bmi of 27 lies in (24.9, 29.9], whose label is
\* Overweight.  Both columns follow the right-closed bins on every dataset.
\* ------------------------------------------------------------------------
C13_BmiCategoryOverweightObese ==
    C13_MinimalDataset(<<Str("Overweight"), Str("Obese")>>)

\* the pipeline returned on minimal_df
C13_Witness ==
    /\ call = "transform"
    /\ given = minimal_df
    /\ Returned
    /\ Output.rows[1]["bmi_category"] = Str("Overweight")

\* the number of the five criteria a row meets
C14_Criteria(row) ==
    (IF FGe(row["bmi"], Num(30)) THEN 1 ELSE 0)
    + (IF FGe(row["systolic_bp"], Num(130)) THEN 1 ELSE 0)
    + (IF FGe(row["triglycerides"], Num(150)) THEN 1 ELSE 0)
    + (IF FLt(row["hdl_cholesterol"], Num(40)) THEN 1 ELSE 0)
    + (IF FGe(row["glucose_fasting"], Num(110)) THEN 1 ELSE 0)

\* the row bmi=32, systolic_bp=135, triglycerides=170, hdl_cholesterol=38,
\* glucose_fasting=160
C14_ExampleRow == MakeDf(AllRaw, <<Len(RowProfiles) + 3>>)

\* ------------------------------------------------------------------------
\* C14: on a dataset with bmi, systolic_bp, triglycerides, hdl_cholesterol
\* and glucose_fasting, in every row cardiometabolic_burden_score is the
\* number of the criteria bmi>=30, systolic_bp>=130, triglycerides>=150,
\* hdl_cholesterol<40, glucose_fasting>=110 the row meets, and
\* metabolic_syndrome_flag is 1 iff that number is at least 3, so that in a
\* pipeline output the flag is 1 iff the score is at least 3; the example
\* row has flag 1 and score 5.
\* ------------------------------------------------------------------------
C14_SyndromeCount ==
    (Returned /\ SyndromeColumns \subseteq Columns(given)) =>
       /\ call \in {"medical", "transform"} =>
             \A i \in 1..NRows(Output) :
                Output.rows[i]["metabolic_syndrome_flag"]
                  = Num(IF C14_Criteria(given.rows[i]) >= 3 THEN 1 ELSE 0)
       /\ call \in {"metabolic", "transform"} =>
             \A i \in 1..NRows(Output) :
                Output.rows[i]["cardiometabolic_burden_score"]
                  = Num(C14_Criteria(given.rows[i]))
       /\ call = "transform" =>
             \A i \in 1..NRows(Output) :
                (Output.rows[i]["metabolic_syndrome_flag"] = Num(1))
                <=> FGe(Output.rows[i]["cardiometabolic_burden_score"], Num(3))
       /\ (call = "transform" /\ given = C14_ExampleRow) =>
             /\ Output.rows[1]["metabolic_syndrome_flag"] = Num(1)
             /\ Output.rows[1]["cardiometabolic_burden_score"] = Num(5)

\* the pipeline returned on a row that meets exactly three criteria
C14_Witness ==
    /\ call = "transform"
    /\ Returned
    /\ SyndromeColumns \subseteq Columns(given)
    /\ C14_Criteria(given.rows[1]) = 3
    /\ Output.rows[1]["metabolic_syndrome_flag"] = Num(1)
    /\ Output.rows[1]["cardiometabolic_burden_score"] = Num(3)

\* every label of the three categorical columns the dataset has is one the
\* normalizer leaves alone
C15_Canonical(df) ==
    \A i \in 1..NRows(df) :
        /\ "gender" \in Columns(df) => df.rows[i]["gender"] # Str("Other")
        /\ "employment_status" \in Columns(df) =>
              df.rows[i]["employment_status"]
                 \notin {Str("Retired"), Str("Unemployed")}
        /\ "smoking_status" \in Columns(df) =>
              df.rows[i]["smoking_status"] # Str("Former")

\* ------------------------------------------------------------------------
\* C15: clean_categorical_variables never raises and logs no warning,
\* whichever of gender, employment_status and smoking_status the dataset
\* has; on canonical labels it returns a dataset equal to its input; and
\* called again on its own result it returns a dataset equal to that
\* result.
\* ------------------------------------------------------------------------
C15_CleanIdempotent ==
    call = "clean" =>
        /\ ~Raised
        /\ Warnings = {}
        /\ \A i \in 1..Len(other.log) : other.log[i].level # "WARNING"
        /\ (Returned /\ C15_Canonical(given)) => Output = given
        /\ (other.call = "clean" /\ other.pc \in {"done", "failed"}) =>
              /\ other.pc = "done"
              /\ other.given = Output
              /\ OtherOutput = Output

\* clean called twice on a dataset with labels it rewrites: the second
\* result equals the first
C15_Witness ==
    /\ call = "clean"
    /\ Returned
    /\ ~C15_Canonical(given)
    /\ Output # given
    /\ other.call = "clean"
    /\ other.pc = "done"
    /\ OtherOutput = Output

\* ------------------------------------------------------------------------
\* C16: drop_leakage_columns returns the input without diabetes_stage and
\* diabetes_risk_score: the other columns in their order, with their
\* values, and as many rows; it logs one event, a removal warning when one
\* of the two was present and "No leakage columns detected." otherwise.
\* No dataset the pipeline works on after that step, and so none it
\* returns, has either column.
\* ------------------------------------------------------------------------
C16_LeakageRemoved ==
    LET denied == {"diabetes_stage", "diabetes_risk_score"}
    IN /\ call = "drop_leakage" => ~Raised
       /\ (call = "drop_leakage" /\ Returned) =>
             /\ Output.cols = SelectSeq(given.cols, LAMBDA c : c \notin denied)
             /\ NRows(Output) = NRows(given)
             /\ \A i \in 1..NRows(Output) : \A c \in Columns(Output) :
                    Output.rows[i][c] = given.rows[i][c]
             /\ log = IF Columns(given) \cap denied # {}
                      THEN <<Event("WARNING", "Removing leakage columns")>>
                      ELSE <<Event("INFO", "No leakage columns detected.")>>
       /\ (call = "transform"
             /\ pc \in {"clean", "finish", "done"} \cup Range(Stages)) =>
             Columns(Output) \cap denied = {}

\* the filter called on a dataset with diabetes_risk_score only
C16_Witness ==
    /\ call = "drop_leakage"
    /\ Returned
    /\ "diabetes_risk_score" \in Columns(given)
    /\ "diabetes_stage" \notin Columns(given)
    /\ "diabetes_risk_score" \notin Columns(Output)
    /\ Len(Output.cols) = Len(given.cols) - 1

\* the first call ended as it would have on a pipeline object of its own:
\* same return or exception, same events, same dataset
C17_FirstAsAlone ==
    (call = "transform" /\ pc \in {"done", "failed"}) =>
        LET r == RunAlone(NewCall("transform", given), cfg)
        IN /\ r.pc = pc
           /\ r.err = err
           /\ r.log = log
           /\ Returned => r.heap[r.cur] = Output

\* and so did the second, whether it ran at the same time as the first or
\* after it
C17_SecondAsAlone ==
    (other.call = "transform" /\ other.pc \in {"done", "failed"}) =>
        LET r == RunAlone(NewCall("transform", other.given), cfg)
        IN /\ r.pc = other.pc
           /\ r.err = other.err
           /\ r.log = other.log
           /\ other.pc = "done" => r.heap[r.cur] = OtherOutput

\* ------------------------------------------------------------------------
\* C17: of two transform calls on one pipeline object, run one after the
\* other or with their steps interleaved in any way, each ends as it would
\* have alone on a pipeline object with the same configuration, and no
\* step of a call, successful or failed, changes the object's
\* configuration.
\* ------------------------------------------------------------------------
C17_NoPerCallState ==
    /\ [](C17_FirstAsAlone /\ C17_SecondAsAlone)
    /\ [][cfg' = cfg]_vars

\* two calls at the same time, on full_df and on minimal_df, both returned
C17_Witness ==
    /\ call = "transform"
    /\ given = MakeDf(AllRaw, <<1, 2>>)
    /\ Returned
    /\ other.call = "transform"
    /\ other.given = minimal_df
    /\ other.pc = "done"
    /\ OtherOutput # Output

\* the dataset transform returns on the caller's dataset, its stages in the
\* order Demographics, Medical, Clinical, Metabolic, Behavioral, Lifestyle
C18_FixedOrderOutput ==
    LET r == RunAlone(NewCall("transform", given), cfg)
    IN r.heap[r.cur]

\* ------------------------------------------------------------------------
\* C18: on a dataset with Age, glucose_fasting and bmi, the six stages
\* applied in any order after leakage removal and normalization never
\* raise and give the columns and, in every row and column, the values the
\* fixed order gives; the columns of the input keep their positions.
\* ------------------------------------------------------------------------
C18_StageOrderIndependent ==
    (call = "transform" /\ HasRequired /\ ValidStrategy) =>
        /\ ~Raised
        /\ Returned =>
              /\ Columns(Output) = Columns(C18_FixedOrderOutput)
              /\ Output.rows = C18_FixedOrderOutput.rows
              /\ SubSeq(Output.cols, 1, Len(given.cols)
                                   - Cardinality(Columns(given)
                                                   \cap LEAKAGE_COLUMNS))
                    = SelectSeq(given.cols, LAMBDA c : c \notin LEAKAGE_COLUMNS)

\* Lifestyle applied first and Demographics last: the derived columns come
\* in another order, with the same values
C18_Witness ==
    /\ call = "transform"
    /\ Returned
    /\ order[1] = "lifestyle"
    /\ order[Len(order)] = "demographics"
    /\ Columns(given) = AllRaw
    /\ Output.cols # C18_FixedOrderOutput.cols
    /\ Output.rows = C18_FixedOrderOutput.rows

\* ------------------------------------------------------------------------
\* C19: when transform has returned and is called again, on the same
\* pipeline object, with the dataset it returned, the second call returns
\* too, and what it returns has the same columns in the same order, the
\* same rows and the same values as what it was given.
\* ------------------------------------------------------------------------
C19_TransformIdempotent ==
    (call = "transform" /\ Returned
       /\ other.call = "transform" /\ other.given = Output) =>
        /\ other.pc # "failed"
        /\ other.pc = "done" => OtherOutput = Output

\* transform called again on the result of a first call that removed the
\* leakage columns, rewrote labels and added columns
C19_Witness ==
    /\ call = "transform"
    /\ Returned
    /\ Columns(given) = AllRaw \cup LEAKAGE_COLUMNS
    /\ ~C15_Canonical(given)
    /\ other.call = "transform"
    /\ other.given = Output
    /\ other.pc = "done"
    /\ OtherOutput = Output
    /\ Len(Output.cols) > Len(given.cols)

====
